---------------------------- MODULE Spec2Model ----------------------------
(***************************************************************************)
(* Model of the head_direction package (src/src/head_direction/core.py and *)
(* utils.py).  The package is a set of pure numerical functions; each one  *)
(* is an operator here, computed the way the code computes it, and each    *)
(* specification draws the inputs of one function in its initial states    *)
(* and applies the function in one action.                                 *)
(*                                                                         *)
(* Numbers.  The code works on IEEE doubles; the model works on exact      *)
(* values, so that equalities are decidable:                               *)
(*   - times, counts and coordinates are integers;                         *)
(*   - a rate is a value <<kind, n, d>>: the rational n/d in lowest terms  *)
(*     (kind "num"), the missing value NaN (0/0) or +infinity (k/0);       *)
(*   - an angle is a multiple of pi/4, written as its number of eighths of *)
(*     a turn, so TwoPi (2*pi) is 8;                                       *)
(*   - a length or a cosine is a number a + b*sqrt(2), written <<a, b>>.   *)
(***************************************************************************)
EXTENDS Integers, Sequences, FiniteSets, TLC

\* pc: the position of the call; args: its arguments; ret: what it returned
\* or raised; log: the records sent to the module's logger.
VARIABLES pc, args, ret, log

vars == <<pc, args, ret, log>>

(***************************************************************************)
(* Bounds of the model.                                                    *)
(***************************************************************************)
MaxSamples == 3
MaxTime == 2
MaxSpikes == 2
MaxBins == 4
MaxLen == 4
MaxVal == 2
MaxCoord == 1
MaxFreeBins == 2

\* 2*pi in the model's angle unit (pi/4): core.py writes 2.0 * np.pi.
TwoPi == 8

(***************************************************************************)
(* Generic helpers.                                                        *)
(***************************************************************************)
Abs(x) == IF x < 0 THEN -x ELSE x

RECURSIVE Gcd(_, _)
Gcd(a, b) == IF b = 0 THEN a ELSE Gcd(b, a % b)

\* All sequences over S of length 0..n.
SeqsUpTo(S, n) == UNION {[1..k -> S] : k \in 0..n}

(***************************************************************************)
(* Floating-point values of a tuning curve: NaN, +inf, or a rational.      *)
(***************************************************************************)
NaN == <<"nan", 0, 0>>
Inf == <<"inf", 0, 0>>

Num(n, d) ==
    LET g == Gcd(Abs(n), Abs(d))
        s == IF d < 0 THEN -1 ELSE 1
    IN  <<"num", s * (n \div g), s * (d \div g)>>

IsNaN(v) == v[1] = "nan"
IsInf(v) == v[1] = "inf"
IsNum(v) == v[1] = "num"
Zero == Num(0, 1)

\* x + y on doubles (no negative infinity arises in this package).
FAdd(x, y) ==
    IF IsNaN(x) \/ IsNaN(y) THEN NaN
    ELSE IF IsInf(x) \/ IsInf(y) THEN Inf
    ELSE Num(x[2] * y[3] + y[2] * x[3], x[3] * y[3])

\* x * (1/w) for a positive integer w.
FScale(x, w) ==
    IF IsNum(x) THEN Num(x[2], x[3] * w) ELSE x

\* np.divide(s, t) of two non-negative numbers under errstate(ignore):
\* 0/0 is nan, k/0 is inf.
Divide(s, t) ==
    IF t = 0 THEN (IF s = 0 THEN NaN ELSE Inf) ELSE Num(s, t)

(***************************************************************************)
(* Results: a returned value or a raised exception.  `at` names the        *)
(* statement that raised.                                                  *)
(***************************************************************************)
Return(v) == [tag |-> "return", value |-> v]
Raise(exc, where) == [tag |-> "raise", error |-> exc, at |-> where]
Raised(r) == r.tag = "raise"

(***************************************************************************)
(* utils.moving_average                                                    *)
(***************************************************************************)
\* Mutant: the NaN entries are left in place.
NanToZero_Kept(data) == data

\* arr[np.isnan(arr)] = 0.0
NanToZero(data) == [i \in 1..Len(data) |-> IF IsNaN(data[i]) THEN Zero ELSE data[i]]

\* Mutant: zeros are padded instead of the opposite ends.
CircularPad_Zeros(arr, w) ==
    [i \in 1..w |-> Zero] \o arr \o [i \in 1..w |-> Zero]

\* np.concatenate((arr[-w:], arr, arr[:w])) for 1 <= w <= len(arr)
CircularPad(arr, w) ==
    LET L == Len(arr)
    IN  SubSeq(arr, L - w + 1, L) \o arr \o SubSeq(arr, 1, w)

\* np.convolve(a, ones(w)/w, mode="same") for len(a) >= w: entry k (0-based)
\* is sum_j a[k + j - w//2] * (1/w), with the entries outside a left out
\* (numpy's zero padding).
RECURSIVE ConvSum(_, _, _, _)
ConvSum(a, k, w, j) ==
    IF j = w THEN Zero
    ELSE LET idx == k + j - (w \div 2)
             term == IF idx >= 0 /\ idx < Len(a) THEN FScale(a[idx + 1], w) ELSE Zero
         IN  FAdd(term, ConvSum(a, k, w, j + 1))

ConvolveSame(a, w) == [k \in 1..Len(a) |-> ConvSum(a, k - 1, w, 0)]

\* Mutant: the limit of the docstring (half the data length).
moving_average_HalfLimit(data, window_size) ==
    LET arr == NanToZero(data)
    IN  IF 2 * window_size > Len(arr)
        THEN Raise("ValueError", "moving_average.window")
        ELSE IF window_size = 0
        THEN Raise("ValueError", "np.convolve.empty")
        ELSE LET padded == CircularPad(arr, window_size)
                 smoothed == ConvolveSame(padded, window_size)
             IN  Return(SubSeq(smoothed, window_size + 1, Len(smoothed) - window_size))

\* np.convolve raises ValueError on an empty kernel (window_size = 0) or an
\* empty array.
moving_average(data, window_size) ==
    LET arr == NanToZero(data)
    IN  IF window_size > Len(arr)
        THEN Raise("ValueError", "moving_average.window")
        ELSE IF window_size = 0
        THEN Raise("ValueError", "np.convolve.empty")
        ELSE LET padded == CircularPad(arr, window_size)
                 smoothed == ConvolveSame(padded, window_size)
             IN  Return(SubSeq(smoothed, window_size + 1, Len(smoothed) - window_size))

(***************************************************************************)
(* core.head_direction_rate                                                *)
(***************************************************************************)
\* Mutant: the last bin is half-open like the others.
FrameCount_HalfOpen(spikes, ts, i) ==
    Cardinality({j \in 1..Len(spikes) : ts[i] <= spikes[j] /\ spikes[j] < ts[i + 1]})

\* np.histogram(spikes, bins=ts)[0][i] (i is 1-based): the spikes in
\* [ts[i], ts[i+1]), the last bin being closed on the right.
FrameCount(spikes, ts, i) ==
    Cardinality({j \in 1..Len(spikes) :
        /\ ts[i] <= spikes[j]
        /\ IF i = Len(ts) - 1 THEN spikes[j] <= ts[i + 1] ELSE spikes[j] < ts[i + 1]})

Monotonic(ts) == \A i \in 1..(Len(ts) - 1) : ts[i] <= ts[i + 1]

\* Mutant: the padding zero is put in front, so the count of frame i is
\* carried by sample i + 1 and the last sample carries spikes.
SpikesPerFrame_Prepended(spikes, ts) ==
    [i \in 1..Len(ts) |-> IF i = 1 THEN 0 ELSE FrameCount(spikes, ts, i - 1)]

\* np.append(np.histogram(flat_spikes, bins=time_stamps)[0], 0)
SpikesPerFrame(spikes, ts) ==
    [i \in 1..Len(ts) |-> IF i = Len(ts) THEN 0 ELSE FrameCount(spikes, ts, i)]

\* np.append(np.diff(time_stamps), 0)
DtPerFrame(ts) ==
    [i \in 1..Len(ts) |-> IF i = Len(ts) THEN 0 ELSE ts[i + 1] - ts[i]]

\* The bin (0-based) of angle a among num_bins equal bins of [0, 2pi], the
\* last one closed on the right; -1 when a falls outside [0, 2pi].
AngleBin(a, num_bins) ==
    IF a < 0 \/ a > TwoPi THEN -1
    ELSE IF a = TwoPi THEN num_bins - 1
    ELSE (a * num_bins) \div TwoPi

\* np.histogram(angle_samples, weights=w, bins=angle_edges)[0][b] (b 0-based)
RECURSIVE WeightedSum(_, _, _, _, _)
WeightedSum(angles, w, num_bins, b, i) ==
    IF i > Len(angles) THEN 0
    ELSE (IF AngleBin(angles[i], num_bins) = b THEN w[i] ELSE 0)
         + WeightedSum(angles, w, num_bins, b, i + 1)

WeightedHistogram(angles, w, num_bins) ==
    [b \in 1..num_bins |-> WeightedSum(angles, w, num_bins, b - 1, 1)]

time_per_angle(angles, ts, num_bins) ==
    WeightedHistogram(angles, DtPerFrame(ts), num_bins)

spikes_per_angle(spikes, angles, ts, num_bins) ==
    WeightedHistogram(angles, SpikesPerFrame(spikes, ts), num_bins)

\* tuning_curve before smoothing (core.py line 84)
RawCurve(spikes, angles, ts, num_bins) ==
    LET s == spikes_per_angle(spikes, angles, ts, num_bins)
        t == time_per_angle(angles, ts, num_bins)
    IN  [b \in 1..num_bins |-> Divide(s[b], t[b])]

\* angle_edges[:-1] + np.diff(angle_edges) / 2, each centre written as the
\* fraction <<2i+1, 2*num_bins>> of a full turn.
AngleCenters(num_bins) == [b \in 1..num_bins |-> <<2 * b - 1, 2 * num_bins>>]

Smooth(curve, smoothing_window) ==
    IF smoothing_window > 0 THEN moving_average(curve, smoothing_window)
    ELSE Return(curve)

\* Mutant: the shape check comes after the temporal binning.
head_direction_rate_LateCheck(spikes, angles, ts, num_bins, smoothing_window) ==
    IF ~Monotonic(ts)
    THEN Raise("ValueError", "np.histogram.bins")
    ELSE IF Len(angles) # Len(ts)
    THEN Raise("ValueError", "head_direction_rate.shape")
    ELSE LET sm == Smooth(RawCurve(spikes, angles, ts, num_bins), smoothing_window)
         IN  IF Raised(sm) THEN sm
             ELSE Return([centers |-> AngleCenters(num_bins), curve |-> sm.value])

head_direction_rate(spikes, angles, ts, num_bins, smoothing_window) ==
    IF Len(angles) # Len(ts)
    THEN Raise("ValueError", "head_direction_rate.shape")
    ELSE IF ~Monotonic(ts)
    THEN Raise("ValueError", "np.histogram.bins")
    ELSE LET sm == Smooth(RawCurve(spikes, angles, ts, num_bins), smoothing_window)
         IN  IF Raised(sm) THEN sm
             ELSE Return([centers |-> AngleCenters(num_bins), curve |-> sm.value])

(***************************************************************************)
(* Specification of head_direction_rate: the initial states draw a call's  *)
(* arguments, the action runs the call.                                    *)
(***************************************************************************)
TimeVals == 0..MaxTime
\* Spike times reach one unit beyond the last possible timestamp.
SpikeVals == 0..(MaxTime + 1)
\* Angle samples: two directions inside the circle, 2*pi itself (the closed
\* right edge of the last bin) and one value beyond 2*pi.
RateAngles == {1, 4, TwoPi, TwoPi + 1}
NoRet == [tag |-> "none"]

RateArgs ==
    [spikes : SeqsUpTo(SpikeVals, MaxSpikes),
     angles : SeqsUpTo(RateAngles, MaxSamples) \ {<<>>},
     ts : SeqsUpTo(TimeVals, MaxSamples) \ {<<>>},
     num_bins : 1..MaxBins,
     smoothing_window : 0..(MaxBins + 1)]

InitRate ==
    /\ pc = "rate"
    /\ args \in RateArgs
    /\ ret = NoRet
    /\ log = <<>>

CallRate ==
    /\ pc = "rate"
    /\ ret' = head_direction_rate(args.spikes, args.angles, args.ts,
                                  args.num_bins, args.smoothing_window)
    /\ pc' = "rate_done"
    /\ UNCHANGED <<args, log>>

NextRate == CallRate

SpecRate == InitRate /\ [][NextRate]_vars

(***************************************************************************)
(* Claims about head_direction_rate (checked under SpecRate).              *)
(***************************************************************************)
RateDone == pc = "rate_done"
RateReturned == RateDone /\ ret.tag = "return"
Occupancy == time_per_angle(args.angles, args.ts, args.num_bins)
SpikeSum == spikes_per_angle(args.spikes, args.angles, args.ts, args.num_bins)
StrictlyIncreasing(ts) == \A i \in 1..(Len(ts) - 1) : ts[i] < ts[i + 1]

\* C1 as stated: in the returned tuning curve, for every accepted
\* smoothing_window, every bin whose occupancy is zero holds NaN.
C1_AsStated ==
    RateReturned =>
        \A b \in 1..args.num_bins : Occupancy[b] = 0 => IsNaN(ret.value.curve[b])

\* C1 amended: with smoothing_window = 0 a bin whose occupancy is zero
\* never holds a number (NaN when its spike sum is zero, +inf otherwise);
\* with an accepted smoothing_window >= 1 no bin of the returned curve is
\* NaN, because moving_average replaces NaN by 0 before averaging.
C1_NanOnlyWithoutSmoothing ==
    RateReturned =>
        \A b \in 1..args.num_bins :
            /\ (args.smoothing_window = 0 /\ Occupancy[b] = 0) =>
                   ret.value.curve[b] = (IF SpikeSum[b] = 0 THEN NaN ELSE Inf)
            /\ (args.smoothing_window = 0 /\ Occupancy[b] > 0) =>
                   IsNum(ret.value.curve[b])
            /\ args.smoothing_window > 0 => ~IsNaN(ret.value.curve[b])

\* The default window 4 is accepted and a never-visited bin holds a
\* positive number.
C1_Witness ==
    /\ RateReturned
    /\ args.smoothing_window = 4
    /\ \E b \in 1..args.num_bins :
          /\ Occupancy[b] = 0
          /\ IsNum(ret.value.curve[b])
          /\ ret.value.curve[b] # Zero

\* C3: whenever len(angle_samples) # len(time_stamps) the call raises the
\* ValueError of the shape check (core.py line 48), whatever the spikes,
\* num_bins and smoothing_window are, and before any other statement can
\* raise.
C3_ShapeMismatchRaisesFirst ==
    (RateDone /\ Len(args.angles) # Len(args.ts)) =>
        ret = Raise("ValueError", "head_direction_rate.shape")

\* A mismatched call whose timestamps also decrease and whose window also
\* exceeds num_bins has raised the shape error.
C3_Witness ==
    /\ RateDone
    /\ Len(args.angles) # Len(args.ts)
    /\ ~Monotonic(args.ts)
    /\ args.smoothing_window > args.num_bins
    /\ Len(args.spikes) > 0
    /\ ret = Raise("ValueError", "head_direction_rate.shape")

\* The spikes inside the closed recording interval [t_0, t_{N-1}].
SpikesInRecording(spikes, ts) ==
    Cardinality({j \in 1..Len(spikes) : ts[1] <= spikes[j] /\ spikes[j] <= ts[Len(ts)]})

ConstantAngle(angles) == \A i \in 1..Len(angles) : angles[i] = angles[1]

C6_Case ==
    /\ RateDone
    /\ args.smoothing_window = 0
    /\ Len(args.ts) >= 2
    /\ Len(args.angles) = Len(args.ts)
    /\ StrictlyIncreasing(args.ts)
    /\ ConstantAngle(args.angles)
    /\ args.angles[1] >= 0 /\ args.angles[1] < TwoPi

\* C6: with smoothing_window = 0, N >= 2 strictly increasing timestamps
\* and one constant heading a in [0, 2pi), exactly the bin containing a is
\* not missing and its rate is
\* (number of spikes in [t_0, t_{N-1}]) / (t_{N-1} - t_0).
C6_ConstantHeadingRate ==
    C6_Case =>
        /\ ret.tag = "return"
        /\ \A b \in 1..args.num_bins :
              IF b = AngleBin(args.angles[1], args.num_bins) + 1
              THEN ret.value.curve[b] =
                       Num(SpikesInRecording(args.spikes, args.ts),
                           args.ts[Len(args.ts)] - args.ts[1])
              ELSE IsNaN(ret.value.curve[b])

\* Three samples, one spike on the last timestamp and one after the
\* recording ends.
C6_Witness ==
    /\ C6_Case
    /\ Len(args.ts) = 3
    /\ args.num_bins > 1
    /\ \E j \in 1..Len(args.spikes) : args.spikes[j] = args.ts[3]
    /\ \E j \in 1..Len(args.spikes) : args.spikes[j] > args.ts[3]
    /\ ret.value.curve[AngleBin(args.angles[1], args.num_bins) + 1] = Num(1, 2)

\* The sum of the entries of a sequence of integers.
RECURSIVE IntSum(_)
IntSum(s) == IF s = <<>> THEN 0 ELSE Head(s) + IntSum(Tail(s))

C14_Case ==
    /\ RateReturned
    /\ StrictlyIncreasing(args.ts)
    /\ args.smoothing_window = 0

\* C14: with strictly increasing timestamps and smoothing_window = 0, a
\* sample carries a non-zero spike count only if it carries a non-zero
\* duration (the last sample carries zero of both), so every bin with a
\* non-zero spike sum has non-zero occupancy; each returned rate is NaN
\* exactly when the occupancy of its bin is zero and a finite non-negative
\* number otherwise, never infinite; and when all angles lie in [0, 2pi)
\* the bin durations sum to t_{N-1} - t_0.
C14_SpikesNeedOccupancy ==
    C14_Case =>
        LET N == Len(args.ts)
            counts == SpikesPerFrame(args.spikes, args.ts)
            dts == DtPerFrame(args.ts)
        IN  /\ \A i \in 1..N : counts[i] # 0 => dts[i] # 0
            /\ counts[N] = 0 /\ dts[N] = 0
            /\ \A b \in 1..args.num_bins :
                  /\ SpikeSum[b] # 0 => Occupancy[b] # 0
                  /\ IsNaN(ret.value.curve[b]) <=> Occupancy[b] = 0
                  /\ ~IsInf(ret.value.curve[b])
                  /\ Occupancy[b] # 0 =>
                         /\ IsNum(ret.value.curve[b])
                         /\ ret.value.curve[b][2] >= 0
                         /\ ret.value.curve[b][3] > 0
            /\ (\A i \in 1..N : args.angles[i] >= 0 /\ args.angles[i] < TwoPi) =>
                  IntSum(Occupancy) = args.ts[N] - args.ts[1]

\* Three samples over two headings and four bins: a spike on the last
\* timestamp is counted, one bin holds a positive rate, another is NaN.
C14_Witness ==
    /\ C14_Case
    /\ Len(args.ts) = 3
    /\ args.num_bins = 4
    /\ args.angles = <<1, 4, 1>>
    /\ \E j \in 1..Len(args.spikes) : args.spikes[j] = args.ts[3]
    /\ \E b \in 1..4 : IsNum(ret.value.curve[b]) /\ ret.value.curve[b][2] > 0
    /\ \E b \in 1..4 : IsNaN(ret.value.curve[b])
    /\ IntSum(Occupancy) = args.ts[3] - args.ts[1]

(***************************************************************************)
(* Specification of moving_average called directly, and of the two         *)
(* functions that smooth together.                                         *)
(***************************************************************************)
MAVals == {NaN, Inf} \cup {Num(n, 1) : n \in 0..MaxVal}

MAArgs == [data : SeqsUpTo(MAVals, MaxLen), window_size : 0..(MaxLen + 1)]

InitMA ==
    /\ pc = "ma"
    /\ args \in MAArgs
    /\ ret = NoRet
    /\ log = <<>>

CallMA ==
    /\ pc = "ma"
    /\ ret' = moving_average(args.data, args.window_size)
    /\ pc' = "ma_done"
    /\ UNCHANGED <<args, log>>

NextMA == CallMA

SpecMA == InitMA /\ [][NextMA]_vars

InitSmoothing == InitMA \/ InitRate

NextSmoothing == CallMA \/ CallRate

SpecSmoothing == InitSmoothing /\ [][NextSmoothing]_vars

(***************************************************************************)
(* Claims about moving_average.                                            *)
(***************************************************************************)
MADone == pc = "ma_done"

RECURSIVE CircularSum(_, _, _, _)
CircularSum(data, i, W, j) ==
    IF j = W THEN Zero
    ELSE LET L == Len(data)
             x == data[((i - (W \div 2) + j) % L) + 1]
         IN  FAdd(IF IsNaN(x) THEN Zero ELSE x, CircularSum(data, i, W, j + 1))

CircularMean(data, i, W) == FScale(CircularSum(data, i, W, 0), W)

C5_Case == MADone /\ args.window_size >= 1 /\ args.window_size <= Len(args.data)

\* C5: for 1 <= W <= L, entry i of moving_average(data, W) is 1/W times
\* the sum of data over the circular window i - W//2 .. i - W//2 + W - 1
\* (indices modulo L), NaN entries counting as 0 and the divisor staying W.
C5_CircularBoxcar ==
    C5_Case =>
        /\ ret.tag = "return"
        /\ \A i \in 0..(Len(args.data) - 1) :
              ret.value[i + 1] = CircularMean(args.data, i, args.window_size)

\* The first and the last entry are averaged with each other across the
\* wrap, next to a NaN entry that counts as 0: [2, NaN, 0, 1] with W = 3.
C5_Witness ==
    /\ C5_Case
    /\ args.data = <<Num(2, 1), NaN, Num(0, 1), Num(1, 1)>>
    /\ args.window_size = 3
    /\ ret.value = <<Num(1, 1), Num(2, 3), Num(1, 3), Num(1, 1)>>

(***************************************************************************)
(* Numbers a + b*sqrt(2) with integers a and b, written <<a, b>>: the      *)
(* lengths of the axis-parallel and diagonal marker vectors of the model.  *)
(***************************************************************************)
ZAdd(x, y) == <<x[1] + y[1], x[2] + y[2]>>
ZSub(x, y) == <<x[1] - y[1], x[2] - y[2]>>
ZMul(x, y) == <<x[1] * y[1] + 2 * x[2] * y[2], x[1] * y[2] + x[2] * y[1]>>
ZScale(k, x) == <<k * x[1], k * x[2]>>
Sgn(n) == IF n > 0 THEN 1 ELSE IF n < 0 THEN -1 ELSE 0

\* The sign of a + b*sqrt(2).
ZSign(x) ==
    LET a == x[1]
        b == x[2]
    IN  IF a >= 0 /\ b >= 0 THEN (IF a = 0 /\ b = 0 THEN 0 ELSE 1)
        ELSE IF a <= 0 /\ b <= 0 THEN -1
        ELSE IF a > 0 THEN Sgn(a * a - 2 * b * b)
        ELSE Sgn(2 * b * b - a * a)

RECURSIVE ZSum(_)
ZSum(s) == IF s = <<>> THEN <<0, 0>> ELSE ZAdd(Head(s), ZSum(Tail(s)))

(***************************************************************************)
(* core.head_direction                                                     *)
(***************************************************************************)
Aligned(dx, dy) == dx = 0 \/ dy = 0 \/ Abs(dx) = Abs(dy)

\* np.hypot(dx, dy) of an axis-parallel or diagonal vector.
Hypot(dx, dy) ==
    CASE dx = 0 -> <<Abs(dy), 0>>
      [] dx # 0 /\ dy = 0 -> <<Abs(dx), 0>>
      [] dx # 0 /\ dy # 0 /\ Abs(dx) = Abs(dy) -> <<0, Abs(dx)>>

\* np.arctan2(dy, dx) of such a vector, in eighths of a turn, in (-pi, pi].
ArcTan2(dy, dx) ==
    CASE dx = 0 /\ dy = 0 -> 0
      [] dx > 0 /\ dy = 0 -> 0
      [] dx > 0 /\ dy = dx -> 1
      [] dx = 0 /\ dy > 0 -> 2
      [] dx < 0 /\ dy = -dx -> 3
      [] dx < 0 /\ dy = 0 -> 4
      [] dx < 0 /\ dy = dx -> -3
      [] dx = 0 /\ dy < 0 -> -2
      [] dx > 0 /\ dy = -dx -> -1

\* distances (core.py lines 205-207): hypot(x2 - x1, y1 - y2)
Distances(x1, y1, x2, y2) ==
    [i \in 1..Len(x1) |-> Hypot(x2[i] - x1[i], y1[i] - y2[i])]

\* The sign of thr * r_std - (r_mean - d) for the threshold thr = p/q
\* (q > 0), decided without taking the square root: with n samples,
\* S = sum(d) and Q = sum(d^2), n * (r_mean - d) is A = S - n*d and
\* (n * r_std)^2 is Vn = n*Q - S^2, so the sign is that of
\* p * sqrt(Vn) - q * A.
BoundSign(distances, thr, i) ==
    LET n == Len(distances)
        S == ZSum(distances)
        Q == ZSum([j \in 1..n |-> ZMul(distances[j], distances[j])])
        Vn == ZSub(ZScale(n, Q), ZMul(S, S))
        A == ZSub(S, ZScale(n, distances[i]))
        l == IF ZSign(Vn) = 0 THEN 0 ELSE Sgn(thr[1])
        r == ZSign(A)
        d2 == ZSign(ZSub(ZScale(thr[1] * thr[1], Vn),
                         ZScale(thr[2] * thr[2], ZMul(A, A))))
    IN  IF l # r THEN Sgn(l - r)
        ELSE IF l = 0 THEN 0
        ELSE IF l > 0 THEN d2
        ELSE -d2

\* valid_mask = distances > (r_mean - std_filter_threshold * r_std)
valid_mask(distances, thr) ==
    [i \in 1..Len(distances) |-> BoundSign(distances, thr, i) > 0]

\* a[mask]: the entries of a whose mask entry is true, in order.
RECURSIVE Masked(_, _)
Masked(a, mask) ==
    IF a = <<>> THEN <<>>
    ELSE (IF Head(mask) THEN <<Head(a)>> ELSE <<>>) \o Masked(Tail(a), Tail(mask))

\* Mutant: the vertical component is taken as for the distance (y2 - y1
\* mirrored), i.e. the angle of (x1 - x2, y2 - y1).
HeadingAngle_Mirrored(x1, y1, x2, y2, offset) ==
    (ArcTan2(y2 - y1, x1 - x2) - offset) % TwoPi

\* Mutant: the offset is added.
HeadingAngle_Added(x1, y1, x2, y2, offset) ==
    (ArcTan2(y1 - y2, x1 - x2) + offset) % TwoPi

\* (np.arctan2(y1 - y2, x1 - x2) - offset) % (2 * np.pi)
HeadingAngle(x1, y1, x2, y2, offset) ==
    (ArcTan2(y1 - y2, x1 - x2) - offset) % TwoPi

head_direction(led1_x, led1_y, led2_x, led2_y, time_stamps, std_filter_threshold, offset) ==
    LET mask == valid_mask(Distances(led1_x, led1_y, led2_x, led2_y), std_filter_threshold)
        x1 == Masked(led1_x, mask)
        y1 == Masked(led1_y, mask)
        x2 == Masked(led2_x, mask)
        y2 == Masked(led2_y, mask)
    IN  Return([angles_rad |-> [i \in 1..Len(x1) |->
                                    HeadingAngle(x1[i], y1[i], x2[i], y2[i], offset)],
                clean_time_stamps |-> Masked(time_stamps, mask)])

\* logger.info(...) when offset == 0.0 (core.py lines 195-196)
HeadDirectionLog(offset) ==
    IF offset = 0 THEN <<"head_direction called with offset=0.0">> ELSE <<>>

(***************************************************************************)
(* Specification of head_direction.  A frame is one sample of the two      *)
(* markers on the grid 0..MaxCoord, their difference axis-parallel or      *)
(* diagonal.                                                               *)
(***************************************************************************)
Coords == 0..MaxCoord

Frames ==
    {f \in [x1 : Coords, y1 : Coords, x2 : Coords, y2 : Coords] :
        Aligned(f.x1 - f.x2, f.y1 - f.y2)}

\* Thresholds p/2 from -1/2 to 2 (the default), written <<p, 2>>.
Thresholds == {<<p, 2>> : p \in (-1)..4}

\* Offsets in eighths of a turn: zero, small ones of both signs, and values
\* beyond a full turn in both directions.
Offsets == {-TwoPi - 1, -2, 0, 1, 3, TwoPi + 2}

\* Timestamps of n samples: increasing, or decreasing.
Stamps(n) == {[i \in 1..n |-> i], [i \in 1..n |-> 2 * (n + 1 - i)]}

HDArgsOf(f, t, thr, o) ==
    [led1_x |-> [i \in 1..Len(f) |-> f[i].x1],
     led1_y |-> [i \in 1..Len(f) |-> f[i].y1],
     led2_x |-> [i \in 1..Len(f) |-> f[i].x2],
     led2_y |-> [i \in 1..Len(f) |-> f[i].y2],
     time_stamps |-> t,
     std_filter_threshold |-> thr,
     offset |-> o]

InitHD ==
    /\ pc = "hd"
    /\ \E f \in SeqsUpTo(Frames, MaxSamples) :
         \E t \in Stamps(Len(f)) :
           \E thr \in Thresholds :
             \E o \in Offsets : args = HDArgsOf(f, t, thr, o)
    /\ ret = NoRet
    /\ log = <<>>

CallHD ==
    /\ pc = "hd"
    /\ ret' = head_direction(args.led1_x, args.led1_y, args.led2_x, args.led2_y,
                             args.time_stamps, args.std_filter_threshold, args.offset)
    /\ log' = log \o HeadDirectionLog(args.offset)
    /\ pc' = "hd_done"
    /\ UNCHANGED args

NextHD == CallHD

SpecHD == InitHD /\ [][NextHD]_vars

(***************************************************************************)
(* Claims about head_direction (checked under SpecHD).                     *)
(***************************************************************************)
HDDone == pc = "hd_done"
HDDistances == Distances(args.led1_x, args.led1_y, args.led2_x, args.led2_y)

\* Sample i lies below the rejection bound: d_i < mean(d) - thr * std(d).
BelowBound(i) == BoundSign(HDDistances, args.std_filter_threshold, i) < 0

\* C2: head_direction removes exactly the samples whose distance is below
\* mean(d) - std_filter_threshold * std(d) and keeps every other sample,
\* those on the bound included; the returned timestamps are those of the
\* kept samples in their original order and the angle array is as long.
C2_RejectsOnlyBelowBound ==
    HDDone =>
        /\ ret.value.clean_time_stamps =
               Masked(args.time_stamps,
                      [i \in 1..Len(args.time_stamps) |-> ~BelowBound(i)])
        /\ Len(ret.value.angles_rad) = Len(ret.value.clean_time_stamps)

\* The samples the call kept, as indices of the input.
Survivors ==
    {i \in 1..Len(args.led1_x) :
        valid_mask(HDDistances, args.std_filter_threshold)[i]}

\* The angle returned for input sample i, a survivor: its position in the
\* output is the number of survivors up to i.
AngleOf(i) == ret.value.angles_rad[Cardinality({j \in Survivors : j <= i})]

\* C7: with offset = 0 every returned angle lies in [0, 2pi) and in the
\* quadrant given by the signs of (x_A - x_B, y_A - y_B): (+,+) first
\* (pi/4 for equal components), (-,+) second, (-,-) third, (+,-) fourth.
C7_Quadrants ==
    (HDDone /\ args.offset = 0) =>
        /\ Len(ret.value.angles_rad) = Cardinality(Survivors)
        /\ \A i \in Survivors :
              LET dx == args.led1_x[i] - args.led2_x[i]
                  dy == args.led1_y[i] - args.led2_y[i]
                  a == AngleOf(i)
              IN  /\ 0 <= a /\ a < TwoPi
                  /\ (dx > 0 /\ dy > 0) => (0 < a /\ 4 * a < TwoPi)
                  /\ (dx > 0 /\ dy = dx) => 8 * a = TwoPi
                  /\ (dx < 0 /\ dy > 0) => (TwoPi < 4 * a /\ 2 * a < TwoPi)
                  /\ (dx < 0 /\ dy < 0) => (TwoPi < 2 * a /\ 4 * a < 3 * TwoPi)
                  /\ (dx > 0 /\ dy < 0) => (3 * TwoPi < 4 * a /\ a < TwoPi)

\* Three survivors, the first two in the third and the fourth quadrant,
\* where arctan2 is negative and the modulo wraps it.
C7_Witness ==
    /\ HDDone
    /\ args.offset = 0
    /\ Survivors = {1, 2, 3}
    /\ args.led1_x[1] < args.led2_x[1] /\ args.led1_y[1] < args.led2_y[1]
    /\ args.led1_x[2] > args.led2_x[2] /\ args.led1_y[2] < args.led2_y[2]
    /\ ret.value.angles_rad[1] = 5
    /\ ret.value.angles_rad[2] = 7

\* C8: with offset o the call returns the timestamps it returns with
\* offset 0, and each angle is the offset-0 angle minus o modulo 2pi, for
\* negative o and o beyond 2pi as well; the logger is written exactly when
\* o = 0 and the returned value obeys the same relation there.
C8_OffsetShift ==
    HDDone =>
        LET r0 == head_direction(args.led1_x, args.led1_y, args.led2_x, args.led2_y,
                                 args.time_stamps, args.std_filter_threshold, 0)
        IN  /\ ret.tag = "return"
            /\ ret.value.clean_time_stamps = r0.value.clean_time_stamps
            /\ Len(ret.value.angles_rad) = Len(r0.value.angles_rad)
            /\ \A i \in 1..Len(r0.value.angles_rad) :
                  ret.value.angles_rad[i] =
                      (r0.value.angles_rad[i] - args.offset) % TwoPi
            /\ (Len(log) = 1) <=> (args.offset = 0)

\* A negative offset beyond a full turn, on a heading of 7*pi/4.
C8_Witness ==
    /\ HDDone
    /\ args.offset = -TwoPi - 1
    /\ Len(ret.value.angles_rad) = 2
    /\ args.led1_x[1] > args.led2_x[1] /\ args.led1_y[1] < args.led2_y[1]
    /\ 1 \in Survivors
    /\ ret.value.angles_rad[1] = 0
    /\ log = <<>>

(***************************************************************************)
(* core.head_direction_score                                               *)
(*                                                                         *)
(* Bin angles are multiples of pi/4 (eighths of a turn) and rates are      *)
(* integers or NaN, so that rx and ry are numbers a + b*sqrt(2) over 2.    *)
(* The returned vector length is NaN or <<"sq", num, den>>, its square as  *)
(* the fraction num/den with num = (2rx)^2 + (2ry)^2 a number a+b*sqrt(2)  *)
(* and den = (2 * total)^2.  The returned angle is NaN or Num(c, 1) with c *)
(* in sixteenths of a turn: 2k is exactly k*pi/4, 2k+1 is an angle         *)
(* strictly between k*pi/4 and (k+1)*pi/4.                                 *)
(***************************************************************************)
\* 2 * cos(a) and 2 * sin(a) for a in eighths of a turn.
Cos2(a) ==
    CASE a % 8 = 0 -> <<2, 0>>
      [] a % 8 \in {1, 7} -> <<0, 1>>
      [] a % 8 \in {2, 6} -> <<0, 0>>
      [] a % 8 \in {3, 5} -> <<0, -1>>
      [] a % 8 = 4 -> <<-2, 0>>

Sin2(a) == Cos2(a - 2)

\* np.arctan2(y, x) in sixteenths of a turn, in (-pi, pi].
ArcTan2Z(y, x) ==
    LET sx == ZSign(x)
        sy == ZSign(y)
        ax == ZScale(sx, x)
        ay == ZScale(sy, y)
        c == ZSign(ZSub(ay, ax))
    IN  IF sy = 0 THEN (IF sx < 0 THEN 8 ELSE 0)
        ELSE IF sx = 0 THEN 4 * sy
        ELSE IF sx > 0 THEN sy * (2 + c)
        ELSE sy * (6 - c)

\* The indices of the bins whose rate is not NaN (valid_mask).
ValidBins(tuning_curve) == {i \in 1..Len(tuning_curve) : ~IsNaN(tuning_curve[i])}

RECURSIVE SumOver(_, _)
SumOver(I, f) ==
    IF I = {} THEN 0
    ELSE LET i == CHOOSE j \in I : TRUE IN f[i] + SumOver(I \ {i}, f)

RECURSIVE ZSumOver(_, _)
ZSumOver(I, f) ==
    IF I = {} THEN <<0, 0>>
    ELSE LET i == CHOOSE j \in I : TRUE IN ZAdd(f[i], ZSumOver(I \ {i}, f))

\* Mutant: a negative angle is returned as it is.
WrapAngle_None(mean_angle) == mean_angle

\* if mean_angle < 0: mean_angle += 2 * np.pi   (in sixteenths)
WrapAngle(mean_angle) ==
    IF mean_angle < 0 THEN mean_angle + 2 * TwoPi ELSE mean_angle

\* np.sum(rates) over the valid bins
TotalRate(tuning_curve) ==
    SumOver(ValidBins(tuning_curve), [i \in DOMAIN tuning_curve |-> tuning_curve[i][2]])

\* Mutant: the early return on a zero rate sum is missing, so the length
\* is 0/0 while arctan2(0, 0) is a number.
head_direction_score_NoZeroCheck(angle_bins, tuning_curve) ==
    IF Len(angle_bins) # Len(tuning_curve)
    THEN Raise("IndexError", "angle_bins[valid_mask]")
    ELSE LET valid == ValidBins(tuning_curve)
             total_rate == TotalRate(tuning_curve)
             rx2 == ZSumOver(valid, [i \in DOMAIN tuning_curve |->
                        ZScale(tuning_curve[i][2], Cos2(angle_bins[i]))])
             ry2 == ZSumOver(valid, [i \in DOMAIN tuning_curve |->
                        ZScale(tuning_curve[i][2], Sin2(angle_bins[i]))])
         IN  Return([mean_angle |-> Num(WrapAngle(ArcTan2Z(ry2, rx2)), 1),
                     mean_vector_length |->
                         IF total_rate = 0 THEN NaN
                         ELSE <<"sq", ZAdd(ZMul(rx2, rx2), ZMul(ry2, ry2)),
                                4 * total_rate * total_rate>>])

head_direction_score(angle_bins, tuning_curve) ==
    IF Len(angle_bins) # Len(tuning_curve)
    THEN Raise("IndexError", "angle_bins[valid_mask]")
    ELSE LET valid == ValidBins(tuning_curve)
             total_rate == TotalRate(tuning_curve)
             rx2 == ZSumOver(valid, [i \in DOMAIN tuning_curve |->
                        ZScale(tuning_curve[i][2], Cos2(angle_bins[i]))])
             ry2 == ZSumOver(valid, [i \in DOMAIN tuning_curve |->
                        ZScale(tuning_curve[i][2], Sin2(angle_bins[i]))])
         IN  IF total_rate = 0
             THEN Return([mean_angle |-> NaN, mean_vector_length |-> NaN])
             ELSE Return([mean_angle |-> Num(WrapAngle(ArcTan2Z(ry2, rx2)), 1),
                          mean_vector_length |->
                              <<"sq", ZAdd(ZMul(rx2, rx2), ZMul(ry2, ry2)),
                                4 * total_rate * total_rate>>])

(***************************************************************************)
(* Specification of head_direction_score: free bin angles on short curves  *)
(* (the two lengths may differ), and full circles of 1, 2, 4 or 8 evenly   *)
(* spaced bins starting anywhere.                                          *)
(***************************************************************************)
ScoreRates == {NaN} \cup {Num(n, 1) : n \in 0..MaxVal}

Circle(L, start) == [i \in 1..L |-> start + (i - 1) * (TwoPi \div L)]

Circles ==
    UNION {{Circle(L, st) : st \in 0..((TwoPi \div L) - 1)} : L \in {1, 2, 4, 8}}

ScoreArgs ==
    [angle_bins : SeqsUpTo(0..(TwoPi - 1), MaxFreeBins),
     tuning_curve : SeqsUpTo(ScoreRates, MaxFreeBins)]
    \cup UNION {[angle_bins : {c}, tuning_curve : [1..Len(c) -> ScoreRates]] : c \in Circles}

InitScore ==
    /\ pc = "score"
    /\ args \in ScoreArgs
    /\ ret = NoRet
    /\ log = <<>>

CallScore ==
    /\ pc = "score"
    /\ ret' = head_direction_score(args.angle_bins, args.tuning_curve)
    /\ pc' = "score_done"
    /\ UNCHANGED <<args, log>>

NextScore == CallScore

SpecScore == InitScore /\ [][NextScore]_vars

(***************************************************************************)
(* Claims about head_direction_score (checked under SpecScore).  The rates *)
(* of the model are finite and non-negative, or NaN.                       *)
(***************************************************************************)
ScoreDone == pc = "score_done"
EqualLength == Len(args.angle_bins) = Len(args.tuning_curve)

\* The sum of the rates that are not NaN, entry by entry.
RECURSIVE RateSum(_)
RateSum(curve) ==
    IF curve = <<>> THEN 0
    ELSE (IF IsNaN(Head(curve)) THEN 0 ELSE Head(curve)[2]) + RateSum(Tail(curve))

UndefinedPair(v) == IsNaN(v.mean_angle) /\ IsNaN(v.mean_vector_length)

\* The returned angle is a number in [0, 2pi) (sixteenths 0..15).
AngleDefined(a) == IsNum(a) /\ a[3] = 1 /\ a[2] \in 0..(2 * TwoPi - 1)
\* The returned length is a number: its square is num/den with den > 0.
LengthDefined(l) == l[1] = "sq" /\ l[3] > 0

\* C9: on equal-length inputs head_direction_score does not raise; it
\* returns (NaN, NaN) exactly when the sum of the non-missing rates is zero
\* (all bins missing, all rates zero, or an empty curve) and two defined
\* numbers otherwise, also when the weighted vector sum is zero.
C9_UndefinedIffZeroSum ==
    (ScoreDone /\ EqualLength) =>
        /\ ret.tag = "return"
        /\ (RateSum(args.tuning_curve) = 0) <=> UndefinedPair(ret.value)
        /\ (RateSum(args.tuning_curve) # 0) =>
              /\ AngleDefined(ret.value.mean_angle)
              /\ LengthDefined(ret.value.mean_vector_length)

\* Two opposite bins of rate 1 and a missing one: the vector sum is zero,
\* the rate sum is not, and the result is (0, 0).
C9_Witness ==
    /\ ScoreDone
    /\ Len(args.angle_bins) = 4
    /\ args.tuning_curve = <<Num(1, 1), NaN, Num(1, 1), Num(0, 1)>>
    /\ ret.value.mean_angle = Num(0, 1)
    /\ ret.value.mean_vector_length = <<"sq", <<0, 0>>, 16>>

\* 0 <= length <= 1, on the square num/den of the length.
LengthInUnitInterval(l) ==
    /\ LengthDefined(l)
    /\ ZSign(l[2]) >= 0
    /\ ZSign(ZSub(<<l[3], 0>>, l[2])) >= 0
LengthIsOne(l) == LengthDefined(l) /\ l[2] = <<l[3], 0>>
LengthIsZero(l) == LengthDefined(l) /\ l[2] = <<0, 0>>

\* All weight is in bin i: its rate is positive, the others are 0 or NaN.
AllWeightIn(i) ==
    /\ IsNum(args.tuning_curve[i]) /\ args.tuning_curve[i][2] > 0
    /\ \A j \in DOMAIN args.tuning_curve :
          j # i => (IsNaN(args.tuning_curve[j]) \/ args.tuning_curve[j] = Zero)

\* The bins are evenly spaced over the full circle.
EvenlySpaced ==
    LET L == Len(args.angle_bins)
    IN  /\ L >= 1
        /\ TwoPi % L = 0
        /\ \A i \in 1..L :
              args.angle_bins[i] = args.angle_bins[1] + (i - 1) * (TwoPi \div L)

\* All bins carry the same non-zero rate.
UniformNonZero ==
    /\ Len(args.tuning_curve) >= 1
    /\ IsNum(args.tuning_curve[1]) /\ args.tuning_curve[1][2] > 0
    /\ \A i \in DOMAIN args.tuning_curve : args.tuning_curve[i] = args.tuning_curve[1]

ScoreCase == ScoreDone /\ EqualLength /\ RateSum(args.tuning_curve) # 0

ScoreRange ==
    /\ ret.tag = "return"
    /\ LengthInUnitInterval(ret.value.mean_vector_length)
    /\ AngleDefined(ret.value.mean_angle)

SingleBinScore ==
    \A i \in DOMAIN args.tuning_curve :
        AllWeightIn(i) =>
            /\ LengthIsOne(ret.value.mean_vector_length)
            /\ ret.value.mean_angle = Num(2 * args.angle_bins[i], 1)

\* C10 as stated: for non-negative rates of non-zero sum the length is in
\* [0, 1] and the angle in [0, 2pi); all weight in one bin gives length 1
\* and that bin's angle; equal non-zero rates on an evenly spaced full
\* circle give length 0.
C10_AsStated ==
    ScoreCase =>
        /\ ScoreRange
        /\ SingleBinScore
        /\ (EvenlySpaced /\ UniformNonZero) =>
              LengthIsZero(ret.value.mean_vector_length)

\* C10 amended: the same, the uniform case holding for a circle of two or
\* more bins (a one-bin curve has all its weight in one bin: length 1).
C10_ScoreValues ==
    ScoreCase =>
        /\ ScoreRange
        /\ SingleBinScore
        /\ (EvenlySpaced /\ UniformNonZero /\ Len(args.angle_bins) >= 2) =>
              LengthIsZero(ret.value.mean_vector_length)
        /\ (UniformNonZero /\ Len(args.angle_bins) = 1) =>
              LengthIsOne(ret.value.mean_vector_length)

\* Eight bins of rate 2 around the circle: length 0.
C10_Witness ==
    /\ ScoreCase
    /\ Len(args.angle_bins) = 8
    /\ EvenlySpaced
    /\ UniformNonZero
    /\ args.tuning_curve[1] = Num(2, 1)
    /\ LengthIsZero(ret.value.mean_vector_length)

(***************************************************************************)
(* utils.to_unitless.  The input is a plain sequence (list or ndarray) or  *)
(* a unit-bearing container: an object with a magnitude and, optionally, a *)
(* rescale method, as the MockObject of tests/test_utils.py.  Every input  *)
(* is a record of one shape:                                               *)
(*   type: "list", "ndarray" or "object";  values: the numbers it holds;   *)
(*   unit: the container's unit;  has_rescale, has_magnitude: what         *)
(*   hasattr(data, ...) answers.                                           *)
(* target_unit is None ("None"), the empty string or a unit name.          *)
(***************************************************************************)
MaxUnitLen == 2

\* bool(target_unit): None and "" are false.
Truthy(target_unit) == target_unit \notin {"None", ""}

\* MockObject.rescale: milliseconds to seconds divides by 1000.0, any other
\* request returns the object itself.
Rescale(data, target) ==
    IF data.unit = "ms" /\ target = "s"
    THEN [data EXCEPT !.values = [i \in DOMAIN data.values |->
                                     Num(data.values[i][2], data.values[i][3] * 1000)],
                      !.unit = "s"]
    ELSE data

\* data.magnitude: the array the container holds.
Magnitude(data) == [type |-> "ndarray", values |-> data.values]

\* np.asarray(data)
AsArray(data) == [type |-> "ndarray", values |-> data.values]

\* Mutant: the magnitude is looked for before the rescale capability.
to_unitless_MagnitudeFirst(data, target_unit) ==
    IF data.has_magnitude
    THEN Return(Magnitude(data))
    ELSE IF Truthy(target_unit) /\ data.has_rescale
    THEN Return(Magnitude(Rescale(data, target_unit)))
    ELSE Return(AsArray(data))

to_unitless(data, target_unit) ==
    IF Truthy(target_unit) /\ data.has_rescale
    THEN Return(Magnitude(Rescale(data, target_unit)))
    ELSE IF data.has_magnitude
    THEN Return(Magnitude(data))
    ELSE Return(AsArray(data))

(***************************************************************************)
(* Specification of to_unitless.                                           *)
(***************************************************************************)
UnitVals == {Num(0, 1), Num(1, 1), Num(1000, 1), Num(2500, 1)}
TargetUnits == {"None", "", "s", "ms"}

PlainData ==
    [type : {"list", "ndarray"}, values : SeqsUpTo(UnitVals, MaxUnitLen),
     unit : {"none"}, has_rescale : {FALSE}, has_magnitude : {FALSE}]

Containers ==
    [type : {"object"}, values : SeqsUpTo(UnitVals, MaxUnitLen),
     unit : {"none", "ms", "s"}, has_rescale : BOOLEAN, has_magnitude : {TRUE}]

UnitlessArgs == [data : PlainData \cup Containers, target_unit : TargetUnits]

InitUnitless ==
    /\ pc = "unitless"
    /\ args \in UnitlessArgs
    /\ ret = NoRet
    /\ log = <<>>

CallUnitless ==
    /\ pc = "unitless"
    /\ ret' = to_unitless(args.data, args.target_unit)
    /\ pc' = "unitless_done"
    /\ UNCHANGED <<args, log>>

NextUnitless == CallUnitless

SpecUnitless == InitUnitless /\ [][NextUnitless]_vars

(***************************************************************************)
(* Claims about to_unitless (checked under SpecUnitless).                  *)
(***************************************************************************)
UnitlessDone == pc = "unitless_done"

\* The values of the input expressed in the target unit.
InTargetUnit(data, target) ==
    [i \in DOMAIN data.values |->
        IF data.unit = "ms" /\ target = "s"
        THEN Num(data.values[i][2], 1000 * data.values[i][3])
        ELSE data.values[i]]

\* C13: to_unitless never raises and picks one of three tiers in fixed
\* order: with a target unit given (not None) and an input that has
\* rescale, the magnitude of the rescaled input; otherwise, with an input
\* that has a magnitude, its raw magnitude (also when it has rescale but no
\* target unit was given); otherwise the input as an array with its values
\* unchanged.
C13_ThreeTiers ==
    UnitlessDone =>
        /\ ret.tag = "return"
        /\ ret.value.type = "ndarray"
        /\ IF args.target_unit # "None" /\ args.data.has_rescale
           THEN ret.value.values = InTargetUnit(args.data, args.target_unit)
           ELSE ret.value.values = args.data.values

\* A container in milliseconds that has both capabilities is asked for
\* seconds: the first tier wins and 2500 ms comes back as 5/2.
C13_Witness ==
    /\ UnitlessDone
    /\ args.data.has_rescale /\ args.data.has_magnitude
    /\ args.data.unit = "ms"
    /\ args.target_unit = "s"
    /\ args.data.values = <<Num(1000, 1), Num(2500, 1)>>
    /\ ret = Return([type |-> "ndarray", values |-> <<Num(1, 1), Num(5, 2)>>])

(***************************************************************************)
(* utils.get_alignment_offset.  Positions and timestamps are integers, the *)
(* timestamps strictly increasing, and the animal moves along one line, so *)
(* every velocity is axis-parallel or diagonal and its direction is a      *)
(* multiple of pi/4.  A velocity component is the fraction num/den of      *)
(* np.gradient; min_speed is a fraction <<p, q>> with q > 0.  The returned *)
(* offset is Num(c, 1) with c in sixteenths of a turn, in (-pi, pi].       *)
(***************************************************************************)
MaxTrack == 12

\* utils.py line 128: fewer than 10 moving samples give no calibration.
MinMoving == 10

\* Numerator and denominator of np.gradient(f, t)[i] (i is 1-based): one-
\* sided differences at the two ends, the second-order formula for unequal
\* spacing inside (with equal spacing h it is (f[i+1] - f[i-1]) / (2h)).
GradNum(f, t, i) ==
    IF i = 1 THEN f[2] - f[1]
    ELSE IF i = Len(f) THEN f[i] - f[i - 1]
    ELSE LET hs == t[i] - t[i - 1]
             hd == t[i + 1] - t[i]
         IN  hs * hs * f[i + 1] + (hd * hd - hs * hs) * f[i] - hd * hd * f[i - 1]

GradDen(t, i) ==
    IF i = 1 THEN t[2] - t[1]
    ELSE IF i = Len(t) THEN t[i] - t[i - 1]
    ELSE LET hs == t[i] - t[i - 1]
             hd == t[i + 1] - t[i]
         IN  hs * hd * (hs + hd)

\* speed[i] > min_speed with speed = np.hypot(vx, vy), decided on squares.
Faster(x, y, t, min_speed, i) ==
    LET nx == GradNum(x, t, i)
        ny == GradNum(y, t, i)
        D == GradDen(t, i)
        p == min_speed[1]
        q == min_speed[2]
    IN  IF p < 0 THEN TRUE
        ELSE (nx * nx + ny * ny) * q * q > p * p * D * D

\* moving_mask, as the set of the samples it keeps
moving_mask(x, y, t, min_speed) ==
    {i \in 1..Len(x) : Faster(x, y, t, min_speed, i)}

\* movement_angle[i]: np.arctan2(vy, vx), negative values raised by 2*pi
movement_angle(x, y, t, i) ==
    LET a == ArcTan2(GradNum(y, t, i), GradNum(x, t, i))
    IN  IF a < 0 THEN a + TwoPi ELSE a

\* Mutant: the difference is taken the other way round.
Diff_Reversed(head, move) == move - head

\* diffs = valid_head - valid_move
Diff(head, move) == head - move

\* float(np.angle(np.mean(np.exp(1j * diffs)))) over the moving samples, in
\* sixteenths of a turn; the mean and the sum have the same angle.
CircularMeanAngle(angle_samples, x, y, t, moving) ==
    LET diffs == [i \in 1..Len(x) |->
                     IF i \in moving
                     THEN Diff(angle_samples[i], movement_angle(x, y, t, i))
                     ELSE 0]
        re2 == ZSumOver(moving, [i \in 1..Len(x) |-> Cos2(diffs[i])])
        im2 == ZSumOver(moving, [i \in 1..Len(x) |-> Sin2(diffs[i])])
    IN  ArcTan2Z(im2, re2)

\* np.gradient raises when the coordinates and the values differ in length
\* and when there are fewer than two samples (a ValueError, or an
\* IndexError in the numpy versions that inspect the spacing first).
get_alignment_offset(angle_samples, pos_x, pos_y, time_stamps, min_speed) ==
    IF Len(time_stamps) # Len(pos_x)
    THEN Raise("ValueError", "np.gradient(x, t).distances")
    ELSE IF Len(pos_x) < 2
    THEN Raise("ValueError/IndexError", "np.gradient(x, t).size")
    ELSE IF Len(time_stamps) # Len(pos_y)
    THEN Raise("ValueError", "np.gradient(y, t).distances")
    ELSE LET moving == moving_mask(pos_x, pos_y, time_stamps, min_speed)
         IN  IF Cardinality(moving) < MinMoving
             THEN Return(Zero)
             ELSE IF Len(angle_samples) # Len(pos_x)
             THEN Raise("IndexError", "angle_samples[moving_mask]")
             ELSE Return(Num(CircularMeanAngle(angle_samples, pos_x, pos_y,
                                               time_stamps, moving), 1))

(***************************************************************************)
(* Specification of get_alignment_offset.  A track of N samples runs along *)
(* the direction u: its first a steps have length k1 and duration h1, the  *)
(* later ones k2 and h2 (k < 0 walks backwards, k = 0 stands still).  The  *)
(* heading is ha + delta up to sample a + 1 and ha afterwards.  Tracks are *)
(* short (0..3 samples) or just long enough to calibrate.                  *)
(***************************************************************************)
TrackLens == (0..3) \cup (MinMoving..MaxTrack)
Dirs == {u \in {-1, 0, 1} \X {-1, 0, 1} : u # <<0, 0>>}
StepLens == {0, 1, 2} \X {-1, 0, 1, 2}
StepTimes == {<<1, 1>>, <<1, 2>>, <<2, 1>>}
\* Headings: three inside [0, 2pi) and one beyond 2pi.
HeadAngles == {0, 2, 5, TwoPi + 1}
HeadJumps == {0, 1, 4}
\* min_speed: negative, 1, 3/2 and the default 2.
MinSpeeds == {<<-1, 1>>, <<1, 1>>, <<3, 2>>, <<2, 1>>}
\* The break lies near one of the two ends of the track.
Breaks(N) == {a \in 0..MaxTrack : a <= 2 \/ a >= N - 3} \cap (0..(IF N = 0 THEN 0 ELSE N - 1))

\* 0, c1, 2*c1, ..., a*c1, a*c1 + c2, a*c1 + 2*c2, ...
Ramp(N, a, c1, c2) ==
    [i \in 1..N |-> IF i - 1 <= a THEN (i - 1) * c1 ELSE a * c1 + (i - 1 - a) * c2]

DropLast(s) == IF s = <<>> THEN s ELSE SubSeq(s, 1, Len(s) - 1)

Track(N, a, k, h, u, ha, delta, min_speed) ==
    LET path == Ramp(N, a, k[1], k[2])
    IN  [angle_samples |-> [i \in 1..N |-> IF i <= a + 1 THEN ha + delta ELSE ha],
         pos_x |-> [i \in 1..N |-> path[i] * u[1]],
         pos_y |-> [i \in 1..N |-> path[i] * u[2]],
         time_stamps |-> Ramp(N, a, h[1], h[2]),
         min_speed |-> min_speed]

\* Calls whose arrays differ in length: one of them lost its last entry.
Misshapen ==
    UNION {{[tr EXCEPT !.angle_samples = DropLast(@)],
            [tr EXCEPT !.time_stamps = DropLast(@)],
            [tr EXCEPT !.pos_y = DropLast(@)]} :
           tr \in {Track(N, 0, <<0, k2>>, <<1, 1>>, <<1, 0>>, 2, 0, <<1, 1>>) :
                       N \in TrackLens \ {0}, k2 \in {0, 2}}}

InitOffset ==
    /\ pc = "offset"
    /\ \/ \E N \in TrackLens, k \in StepLens, h \in StepTimes, u \in Dirs,
             ha \in HeadAngles, d \in HeadJumps, m \in MinSpeeds :
             \E a \in Breaks(N) : args = Track(N, a, k, h, u, ha, d, m)
       \/ args \in Misshapen
    /\ ret = NoRet
    /\ log = <<>>

CallOffset ==
    /\ pc = "offset"
    /\ ret' = get_alignment_offset(args.angle_samples, args.pos_x, args.pos_y,
                                   args.time_stamps, args.min_speed)
    /\ pc' = "offset_done"
    /\ UNCHANGED <<args, log>>

NextOffset == CallOffset

SpecOffset == InitOffset /\ [][NextOffset]_vars

(***************************************************************************)
(* Claims about get_alignment_offset (checked under SpecOffset).           *)
(***************************************************************************)
OffsetDone == pc = "offset_done"
TrackLen == Len(args.pos_x)

\* The four arrays of the call have one length.
WellShaped ==
    /\ Len(args.pos_y) = TrackLen
    /\ Len(args.time_stamps) = TrackLen
    /\ Len(args.angle_samples) = TrackLen

\* The samples whose speed is strictly greater than min_speed; a track of
\* fewer than two samples has no speed at all.
Qualifying ==
    IF WellShaped /\ TrackLen >= 2
    THEN {i \in 1..TrackLen :
             Faster(args.pos_x, args.pos_y, args.time_stamps, args.min_speed, i)}
    ELSE {}

MovementAngleOf(i) == movement_angle(args.pos_x, args.pos_y, args.time_stamps, i)

\* C11 as stated: on arrays of one length, get_alignment_offset returns
\* exactly 0.0, without raising, whenever fewer than 10 samples have a speed
\* strictly greater than min_speed, and the circular mean otherwise.
C11_AsStated ==
    (OffsetDone /\ WellShaped) =>
        IF Cardinality(Qualifying) < MinMoving
        THEN ret = Return(Zero)
        ELSE ret = Return(Num(CircularMeanAngle(args.angle_samples, args.pos_x,
                                  args.pos_y, args.time_stamps, Qualifying), 1))

\* The part of C11 the code keeps: the same statement for tracks of two or
\* more samples.
C11_FromTwoSamples ==
    (OffsetDone /\ WellShaped /\ TrackLen >= 2) =>
        IF Cardinality(Qualifying) < MinMoving
        THEN ret = Return(Zero)
        ELSE ret = Return(Num(CircularMeanAngle(args.angle_samples, args.pos_x,
                                  args.pos_y, args.time_stamps, Qualifying), 1))

\* A track of one sample: no sample qualifies and the call raises.
C11_SingleSampleRaises ==
    /\ OffsetDone
    /\ WellShaped
    /\ TrackLen = 1
    /\ Raised(ret)

\* Nine of twelve samples are faster than min_speed = 1, another is exactly
\* as fast, heading and movement differ, and the call returns 0.0.
C11_NineMovingWitness ==
    /\ OffsetDone
    /\ WellShaped
    /\ TrackLen = 12
    /\ Cardinality(Qualifying) = 9
    /\ args.min_speed = <<1, 1>>
    /\ \E i \in 1..TrackLen :
          /\ i \notin Qualifying
          /\ GradNum(args.pos_x, args.time_stamps, i) = GradDen(args.time_stamps, i)
          /\ GradNum(args.pos_y, args.time_stamps, i) = 0
    /\ \A i \in Qualifying : args.angle_samples[i] = 2 /\ MovementAngleOf(i) = 0
    /\ ret = Return(Zero)

\* d wrapped into (-pi, pi], in eighths of a turn.
WrapPi(d) ==
    LET r == d % TwoPi
    IN  IF 2 * r > TwoPi THEN r - TwoPi ELSE r

\* The unit marker vector of heading a (a multiple of pi/4).
DirVec(a) ==
    CASE a % 8 = 0 -> <<1, 0>>
      [] a % 8 = 1 -> <<1, 1>>
      [] a % 8 = 2 -> <<0, 1>>
      [] a % 8 = 3 -> <<-1, 1>>
      [] a % 8 = 4 -> <<-1, 0>>
      [] a % 8 = 5 -> <<-1, -1>>
      [] a % 8 = 6 -> <<0, -1>>
      [] a % 8 = 7 -> <<1, -1>>

\* At least 10 samples move, all with heading h and movement direction m.
C12_Case(h, m) ==
    /\ OffsetDone
    /\ WellShaped
    /\ Cardinality(Qualifying) >= MinMoving
    /\ \A i \in Qualifying : args.angle_samples[i] = h /\ MovementAngleOf(i) = m

\* C12: when at least 10 samples move faster than min_speed, with constant
\* heading h and constant movement direction m on those samples,
\* get_alignment_offset returns h - m wrapped into (-pi, pi], and
\* head_direction called with that offset on markers of heading h yields m.
C12_ConstantOffset ==
    (OffsetDone /\ WellShaped) =>
        LET moving == Qualifying
        IN  Cardinality(moving) >= MinMoving =>
                LET first == CHOOSE i \in moving : TRUE
                    h == args.angle_samples[first]
                    m == MovementAngleOf(first)
                IN  (\A i \in moving :
                        args.angle_samples[i] = h /\ MovementAngleOf(i) = m)
                    => /\ ret = Return(Num(2 * WrapPi(h - m), 1))
                       /\ HeadingAngle(DirVec(h)[1], DirVec(h)[2], 0, 0,
                                       WrapPi(h - m)) = m

\* The scenario of the tests inside a longer track: the animal stands
\* still with another heading, then runs east with heading pi/2 on exactly
\* ten samples; the offset is pi/2.
C12_Witness ==
    /\ C12_Case(2, 0)
    /\ TrackLen = 12
    /\ Cardinality(Qualifying) = 10
    /\ args.angle_samples[1] # 2
    /\ ret = Return(Num(4, 1))

=============================================================================
